---- MODULE Spec2Model ----
(***************************************************************************)
(* Model of STrace's manifest-free ETW logger (C/STrace/EtwLogger.cpp).    *)
(*                                                                         *)
(* State: the provider cache g_ProviderCache, the non-paged pool (every    *)
(* block ExAllocatePoolWithTag has handed out), the tracing subsystem's    *)
(* table of registration handles, and a record of the last call made.      *)
(* One action per entry point: EtwTrace, and the public methods            *)
(* EtwProvider::AddEvent / EtwProvider::WriteEvent called on a cached      *)
(* provider, and the two Initialize routines called on a fresh object.     *)
(* Teardown destructs the cached providers.  Calls run one after another,  *)
(* except in the specification of two concurrent callers of EtwTrace,      *)
(* where each caller advances statement by statement.                      *)
(*                                                                         *)
(* Strings are TLA+ strings; strlen is Len.  A GUID is modelled by value.  *)
(* A pointer is the index of a block in the pool; NULL is 0.  A handle is  *)
(* the index of a registration in the subsystem's table; 0 is "none".      *)
(***************************************************************************)
EXTENDS Integers, Sequences, FiniteSets, TLC

VARIABLES
    g_ProviderCache,   \* MyVector<detail::EtwProvider>
    pool,              \* sequence of pool blocks; a pointer is an index
    etw,               \* the tracing subsystem: sequence of registrations
    last,              \* what the last call did and returned
    succeeded,         \* history: the call sites whose EtwTrace call has returned success
    ncalls,            \* number of calls made so far
    threads            \* concurrent callers of EtwTrace: where each is in its call

vars == <<g_ProviderCache, pool, etw, last, succeeded, ncalls, threads>>

---------------------------------------------------------------------------
(* Bounds of the model. *)

MaxCalls == 3

---------------------------------------------------------------------------
(* Program constants. *)

NULL == 0

STATUS_SUCCESS == "STATUS_SUCCESS"
STATUS_UNSUCCESSFUL == "STATUS_UNSUCCESSFUL"

PASSIVE_LEVEL == 0

EtwFieldNull == 0
EtwFieldUnicodeString == 1
EtwFieldAnsiString == 2
EtwFieldInt8 == 3
EtwFieldUInt8 == 4
EtwFieldInt16 == 5
EtwFieldUInt16 == 6
EtwFieldInt32 == 7
EtwFieldUInt32 == 8
EtwFieldInt64 == 9
EtwFieldUInt64 == 10
EtwFieldFloat == 11
EtwFieldDouble == 12
EtwFieldBool32 == 13
EtwFieldBinary == 14
EtwFieldGuid == 15
EtwFieldPointer == 16
EtwFieldFiletime == 17
EtwFieldSystemTime == 18
EtwFieldSid == 19
EtwFieldHexInt32 == 20
EtwFieldHexInt64 == 21
EtwFieldPid == EtwFieldInt32 + 5 * 256   \* (EtwFieldInt32 | 0x05 << 8)

EVENT_DATA_DESCRIPTOR_TYPE_NONE == 0
EVENT_DATA_DESCRIPTOR_TYPE_EVENT_METADATA == 1
EVENT_DATA_DESCRIPTOR_TYPE_PROVIDER_METADATA == 2

ManifestFreeChannel == 11

\* (uint16_t)x
U16(x) == x % 65536

\* (uint8_t)x
U8(x) == x % 256

strlen(s) == Len(s)

---------------------------------------------------------------------------
(* Inputs the callers draw from. *)

\* A GUID by value: Data1, Data2, Data3 and the eight bytes of Data4.
GuidA == [Data1 |-> 1, Data2 |-> 2, Data3 |-> 3, Data4 |-> <<0, 0, 0, 0, 0, 0, 0, 1>>]
GuidB == [Data1 |-> 1, Data2 |-> 2, Data3 |-> 3, Data4 |-> <<0, 0, 0, 0, 0, 0, 0, 2>>]
Guids == {GuidA, GuidB}

\* The (field name, field type, field value) triples of the variadic list.
UserId == [name |-> "UserId", type |-> EtwFieldUInt32,     value |-> 42]
User == [name |-> "User",   type |-> EtwFieldAnsiString, value |-> "bob"]
Addr == [name |-> "Addr",   type |-> EtwFieldPointer,    value |-> 7]

\* The call sites of EtwTrace in the hosting driver: each passes a fixed
\* provider name and GUID, event name, level, keyword and field list.  Two
\* sites use one event name with different field lists, two share a provider.
CallSites ==
    { [providerName |-> "Contoso", providerGuid |-> GuidA, eventName |-> "UserLogin",
       eventLevel |-> 4, keyword |-> 1, fields |-> <<UserId, User>>],
      [providerName |-> "Contoso", providerGuid |-> GuidA, eventName |-> "UserLogin",
       eventLevel |-> 4, keyword |-> 1, fields |-> <<Addr>>],
      [providerName |-> "Contoso", providerGuid |-> GuidA, eventName |-> "Logout",
       eventLevel |-> 5, keyword |-> 1, fields |-> <<>>],
      [providerName |-> "Fabrikam", providerGuid |-> GuidB, eventName |-> "Logout",
       eventLevel |-> 4, keyword |-> 2, fields |-> <<UserId>>] }

\* What callers of the EtwProvider methods pass.
Events == { [eventName |-> c.eventName, eventLevel |-> c.eventLevel,
             keyword |-> c.keyword, fields |-> c.fields] : c \in CallSites }

\* The longest field list of a call site.
MaxFields ==
    CHOOSE n \in { Len(c.fields) : c \in CallSites } :
        \A c \in CallSites : Len(c.fields) <= n

Irqls == {PASSIVE_LEVEL, PASSIVE_LEVEL + 2}   \* PASSIVE_LEVEL, DISPATCH_LEVEL

\* What the external primitives may answer besides STATUS_SUCCESS.
RegisterFailures == {"STATUS_ACCESS_DENIED"}
SetTraitsFailures == {"STATUS_INVALID_PARAMETER"}
WriteFailures == {"STATUS_NO_MEMORY"}

\* The environment of one call: the status each external primitive answers
\* and which allocation of the call (1st, 2nd, ...; 0 = none) returns NULL.
\* Every routine returns at the first primitive that fails, so a call meets
\* at most one failure: the environments with one failure are all of them.
NoFault ==
    [reg |-> STATUS_SUCCESS, traits |-> STATUS_SUCCESS, wr |-> STATUS_SUCCESS,
     allocFail |-> 0]

Envs ==
    {NoFault}
    \cup { [NoFault EXCEPT !.reg = s] : s \in RegisterFailures }
    \cup { [NoFault EXCEPT !.traits = s] : s \in SetTraitsFailures }
    \cup { [NoFault EXCEPT !.wr = s] : s \in WriteFailures }
    \cup { [NoFault EXCEPT !.allocFail = k] : k \in 1..(MaxFields + 3) }

\* The environments that differ from NoFault for a call whose fault-free run
\* ends in machine m0: a primitive the call never reaches cannot fail it.
EnvsFor(m0) ==
    { e \in Envs :
        /\ e.reg # STATUS_SUCCESS => m0.nRegister > 0
        /\ e.traits # STATUS_SUCCESS => m0.nSetTraits > 0
        /\ e.wr # STATUS_SUCCESS => m0.nWrite > 0
        /\ e.allocFail <= m0.nAlloc }

---------------------------------------------------------------------------
(* The machine a call runs on: the program state plus the counters of the  *)
(* external calls the call has made.                                       *)

NoWrite == [called |-> FALSE]

Machine(cache, p, t) ==
    [cache |-> cache, pool |-> p, etw |-> t,
     nAlloc |-> 0, nRegister |-> 0, nSetTraits |-> 0, nWrite |-> 0,
     write |-> NoWrite]

\* ExAllocatePoolWithTag(NonPagedPoolNx, size, tag): a fresh block, or NULL.
\* A request for zero bytes is served like any other: the pool hands out a
\* block of its minimum size.
ExAllocatePoolWithTag(m, e, size, tag) ==
    LET n == m.nAlloc + 1 IN
    IF e.allocFail = n
    THEN [m |-> [m EXCEPT !.nAlloc = n], ptr |-> NULL]
    ELSE [m |-> [m EXCEPT !.nAlloc = n,
                          !.pool = Append(@, [Tag |-> tag, NumberOfBytes |-> size,
                                              type |-> "void", data |-> <<>>,
                                              extent |-> 0, live |-> TRUE])],
          ptr |-> Len(m.pool) + 1]

Max(a, b) == IF a >= b THEN a ELSE b

\* The writes a routine makes through a pointer cast to `type`: the block's
\* content, and how many bytes from the block's start they cover.
Store(m, ptr, type, data, extent) ==
    [m EXCEPT !.pool[ptr].type = type, !.pool[ptr].data = data,
              !.pool[ptr].extent = extent]

\* EtwRegister(guid, NULL, NULL, &handle)
EtwRegister(m, e, guid) ==
    IF e.reg = STATUS_SUCCESS
    THEN [m |-> [m EXCEPT !.nRegister = @ + 1,
                          !.etw = Append(@, [guid |-> guid, traits |-> NULL,
                                             registered |-> TRUE])],
          status |-> STATUS_SUCCESS, handle |-> Len(m.etw) + 1]
    ELSE [m |-> [m EXCEPT !.nRegister = @ + 1], status |-> e.reg, handle |-> 0]

\* EtwSetInformation(handle, EventProviderSetTraits, blob, length)
EtwSetInformation(m, e, handle, ptr, length) ==
    IF e.traits = STATUS_SUCCESS
    THEN [m |-> [m EXCEPT !.nSetTraits = @ + 1, !.etw[handle].traits = ptr],
          status |-> STATUS_SUCCESS]
    ELSE [m |-> [m EXCEPT !.nSetTraits = @ + 1], status |-> e.traits]

\* EtwWrite(handle, eventDescriptor, NULL, count, dataDescriptors)
EtwWrite(m, e, handle, eventDescriptor, count, dataDescriptors) ==
    [m |-> [m EXCEPT !.nWrite = @ + 1,
                     !.write = [called |-> TRUE, RegHandle |-> handle,
                                EventDescriptor |-> eventDescriptor,
                                UserDataCount |-> count,
                                UserData |-> dataDescriptors]],
     status |-> e.wr]

\* ExFreePool(ptr)
ExFreePool(m, ptr) == [m EXCEPT !.pool[ptr].live = FALSE]

\* EtwUnregister(handle)
EtwUnregister(m, handle) == [m EXCEPT !.etw[handle].registered = FALSE]

\* EVENT_DATA_DESCRIPTOR, zeroed
NullDesc == [Ptr |-> NULL, Size |-> 0, Type |-> EVENT_DATA_DESCRIPTOR_TYPE_NONE]

\* EventDataDescCreate(&desc, ptr, size)
EventDataDescCreate(ptr, size) ==
    [Ptr |-> ptr, Size |-> size, Type |-> EVENT_DATA_DESCRIPTOR_TYPE_NONE]

---------------------------------------------------------------------------
(* EtwProviderEvent *)

\* The first loop of Initialize: the 16-bit running sum of the field sizes.
RECURSIVE EventMetadataLength(_, _, _)
EventMetadataLength(len, fields, i) ==
    IF i > Len(fields) THEN len
    ELSE EventMetadataLength(U16(len + U16(strlen(fields[i].name) + 1 + 1)), fields, i + 1)

\* The second loop of Initialize: where currentLocation ends, as an offset
\* from the start of the block.
RECURSIVE EventMetadataEnd(_, _, _)
EventMetadataEnd(offset, fields, i) ==
    IF i > Len(fields) THEN offset
    ELSE EventMetadataEnd(offset + strlen(fields[i].name) + 1 + 1, fields, i + 1)

\* The (field name, type byte) tuples the second loop writes.
EventMetadataFields(fields) ==
    [i \in 1..Len(fields) |-> [FieldName |-> fields[i].name, Type |-> U8(fields[i].type)]]

\* NTSTATUS EtwProviderEvent::Initialize(eventName, numberOfFields, fields)
\* on a default-constructed EtwProviderEvent.
EtwProviderEvent_Initialize(m, e, eventName, fields) ==
    LET eventMetadataHeaderLength == strlen(eventName) + 1 + 2 + 1
        eventMetadataLength ==
            EventMetadataLength(U16(eventMetadataHeaderLength), fields, 1)
        a == ExAllocatePoolWithTag(m, e, eventMetadataLength, "wteE")
        eventMetadata ==
            [TotalLength |-> eventMetadataLength, Tag |-> 0, EventName |-> eventName,
             Fields |-> EventMetadataFields(fields)]
        desc == [EventDataDescCreate(a.ptr, eventMetadata.TotalLength)
                    EXCEPT !.Type = EVENT_DATA_DESCRIPTOR_TYPE_EVENT_METADATA]
    IN  IF a.ptr = NULL
        THEN [m |-> a.m, status |-> STATUS_UNSUCCESSFUL,
              event |-> [m_eventMetadataDesc |-> NullDesc]]
        ELSE [m |-> Store(a.m, a.ptr, "EventMetadata", eventMetadata,
                          Max(eventMetadataLength,
                              EventMetadataEnd(eventMetadataHeaderLength, fields, 1))),
              status |-> STATUS_SUCCESS,
              event |-> [m_eventMetadataDesc |-> desc]]

\* const char* EtwProviderEvent::Name() const
EtwProviderEvent_Name(p, event) == p[event.m_eventMetadataDesc.Ptr].data.EventName

\* EVENT_DATA_DESCRIPTOR EtwProviderEvent::MetadataDescriptor() const
MetadataDescriptor(event) == event.m_eventMetadataDesc

---------------------------------------------------------------------------
(* EtwProvider *)

\* EtwProvider::EtwProvider(LPCGUID providerGuid)
EtwProvider(providerGuid) ==
    [m_guid |-> providerGuid, m_regHandle |-> 0,
     m_providerMetadataDesc |-> NullDesc, m_events |-> <<>>]

\* Initialize without the check of EtwSetInformation's status.
Initialize_IgnoresSetTraits(m, e, provider, providerName) ==
    LET r == EtwRegister(m, e, provider.m_guid)
        registered == [provider EXCEPT !.m_regHandle = r.handle]
        providerMetadataLength == U16((strlen(providerName) + 1) + 2)
        a == ExAllocatePoolWithTag(r.m, e, providerMetadataLength, "wteO")
        providerMetadata ==
            [TotalLength |-> providerMetadataLength, ProviderName |-> providerName]
        stored == Store(a.m, a.ptr, "ProviderMetadata", providerMetadata,
                        Max(providerMetadataLength, 2 + strlen(providerName) + 1))
        t == EtwSetInformation(stored, e, registered.m_regHandle, a.ptr,
                               providerMetadataLength)
        desc == [EventDataDescCreate(a.ptr, providerMetadata.TotalLength)
                    EXCEPT !.Type = EVENT_DATA_DESCRIPTOR_TYPE_PROVIDER_METADATA]
    IN  IF r.status # STATUS_SUCCESS
        THEN [m |-> r.m, status |-> r.status, provider |-> provider]
        ELSE IF a.ptr = NULL
        THEN [m |-> a.m, status |-> STATUS_UNSUCCESSFUL, provider |-> registered]
        ELSE [m |-> t.m, status |-> STATUS_SUCCESS,
              provider |-> [registered EXCEPT !.m_providerMetadataDesc = desc]]

\* Initialize unregistering the handle when the allocation or
\* EtwSetInformation fails.
Initialize_UnregistersOnFailure(m, e, provider, providerName) ==
    LET r == EtwRegister(m, e, provider.m_guid)
        registered == [provider EXCEPT !.m_regHandle = r.handle]
        providerMetadataLength == U16((strlen(providerName) + 1) + 2)
        a == ExAllocatePoolWithTag(r.m, e, providerMetadataLength, "wteO")
        providerMetadata ==
            [TotalLength |-> providerMetadataLength, ProviderName |-> providerName]
        stored == Store(a.m, a.ptr, "ProviderMetadata", providerMetadata,
                        Max(providerMetadataLength, 2 + strlen(providerName) + 1))
        t == EtwSetInformation(stored, e, registered.m_regHandle, a.ptr,
                               providerMetadataLength)
        desc == [EventDataDescCreate(a.ptr, providerMetadata.TotalLength)
                    EXCEPT !.Type = EVENT_DATA_DESCRIPTOR_TYPE_PROVIDER_METADATA]
    IN  IF r.status # STATUS_SUCCESS
        THEN [m |-> r.m, status |-> r.status, provider |-> provider]
        ELSE IF a.ptr = NULL
        THEN [m |-> EtwUnregister(a.m, r.handle), status |-> STATUS_UNSUCCESSFUL,
              provider |-> registered]
        ELSE IF t.status # STATUS_SUCCESS
        THEN [m |-> EtwUnregister(t.m, r.handle), status |-> t.status,
              provider |-> registered]
        ELSE [m |-> t.m, status |-> STATUS_SUCCESS,
              provider |-> [registered EXCEPT !.m_providerMetadataDesc = desc]]

\* NTSTATUS EtwProvider::Initialize(const char* providerName)
EtwProvider_Initialize(m, e, provider, providerName) ==
    LET r == EtwRegister(m, e, provider.m_guid)
        registered == [provider EXCEPT !.m_regHandle = r.handle]
        providerMetadataLength == U16((strlen(providerName) + 1) + 2)
        a == ExAllocatePoolWithTag(r.m, e, providerMetadataLength, "wteO")
        providerMetadata ==
            [TotalLength |-> providerMetadataLength, ProviderName |-> providerName]
        stored == Store(a.m, a.ptr, "ProviderMetadata", providerMetadata,
                        Max(providerMetadataLength, 2 + strlen(providerName) + 1))
        t == EtwSetInformation(stored, e, registered.m_regHandle, a.ptr,
                               providerMetadataLength)
        desc == [EventDataDescCreate(a.ptr, providerMetadata.TotalLength)
                    EXCEPT !.Type = EVENT_DATA_DESCRIPTOR_TYPE_PROVIDER_METADATA]
    IN  IF r.status # STATUS_SUCCESS
        THEN [m |-> r.m, status |-> r.status, provider |-> provider]
        ELSE IF a.ptr = NULL
        THEN [m |-> a.m, status |-> STATUS_UNSUCCESSFUL, provider |-> registered]
        ELSE IF t.status # STATUS_SUCCESS
        THEN [m |-> t.m, status |-> t.status, provider |-> registered]
        ELSE [m |-> t.m, status |-> STATUS_SUCCESS,
              provider |-> [registered EXCEPT !.m_providerMetadataDesc = desc]]

\* FindEvent with the comparison inverted (strcmp(...) != 0).
FindEvent_Inverted(p, provider, eventName) ==
    LET hits == { i \in 1..Len(provider.m_events) :
                    EtwProviderEvent_Name(p, provider.m_events[i]) # eventName }
    IN  IF hits = {} THEN 0 ELSE CHOOSE i \in hits : \A j \in hits : i <= j

\* EtwProviderEvent* EtwProvider::FindEvent(const char* eventName):
\* the index of the first event of that name in m_events, 0 for NULL.
EtwProvider_FindEvent(p, provider, eventName) ==
    LET hits == { i \in 1..Len(provider.m_events) :
                    EtwProviderEvent_Name(p, provider.m_events[i]) = eventName }
    IN  IF hits = {} THEN 0 ELSE CHOOSE i \in hits : \A j \in hits : i <= j

\* AddEvent without the FindEvent check: every call builds and appends.
AddEvent_NoLookup(m, e, at, eventName, fields) ==
    LET r == EtwProviderEvent_Initialize(m, e, eventName, fields) IN
    IF r.status # STATUS_SUCCESS
    THEN [m |-> r.m, status |-> r.status]
    ELSE [m |-> [r.m EXCEPT !.cache[at].m_events = Append(@, r.event)],
          status |-> r.status]

\* AddEvent storing the new event in place of the events the provider has.
AddEvent_Replaces(m, e, at, eventName, fields) ==
    IF EtwProvider_FindEvent(m.pool, m.cache[at], eventName) = 0
    THEN LET r == EtwProviderEvent_Initialize(m, e, eventName, fields) IN
         IF r.status # STATUS_SUCCESS
         THEN [m |-> r.m, status |-> r.status]
         ELSE [m |-> [r.m EXCEPT !.cache[at].m_events = <<r.event>>],
               status |-> r.status]
    ELSE [m |-> m, status |-> STATUS_SUCCESS]

\* NTSTATUS EtwProvider::AddEvent(eventName, numberOfFields, fields)
\* on the provider at index `at` of the cache.
EtwProvider_AddEvent(m, e, at, eventName, fields) ==
    IF EtwProvider_FindEvent(m.pool, m.cache[at], eventName) = 0
    THEN LET r == EtwProviderEvent_Initialize(m, e, eventName, fields) IN
         IF r.status # STATUS_SUCCESS
         THEN [m |-> r.m, status |-> r.status]
         ELSE [m |-> [r.m EXCEPT !.cache[at].m_events = Append(@, r.event)],
               status |-> r.status]
    ELSE [m |-> m, status |-> STATUS_SUCCESS]

\* size_t EtwProvider::SizeOfField(int fieldType, void* fieldValue)
SizeOfField(fieldType, fieldValue) ==
    LET t == fieldType % 256 IN   \* fieldType & 0x000000FF
    CASE t = EtwFieldAnsiString -> strlen(fieldValue) + 1
      [] t = EtwFieldInt8 -> 1
      [] t = EtwFieldUInt8 -> 1
      [] t = EtwFieldInt16 -> 2
      [] t = EtwFieldUInt16 -> 2
      [] t = EtwFieldInt32 -> 4
      [] t = EtwFieldUInt32 -> 4
      [] t = EtwFieldInt64 -> 8
      [] t = EtwFieldUInt64 -> 8
      [] t = EtwFieldFloat -> 4
      [] t = EtwFieldDouble -> 8
      [] t = EtwFieldBool32 -> 4
      [] t = EtwFieldGuid -> 16
      [] OTHER -> 0

\* memcpy(newSpace, fieldValue, fieldSize): the bytes copied.  A string is
\* copied with its terminator; a scalar is the low fieldSize bytes of the
\* size_t argument, little-endian (the model's values fit in four bytes).
CopiedBytes(fieldType, fieldValue, fieldSize) ==
    IF fieldType % 256 = EtwFieldAnsiString
    THEN [str |-> fieldValue, bytes |-> <<>>]
    ELSE [str |-> "",
          bytes |-> [i \in 1..fieldSize |->
                        IF i > 4 THEN 0 ELSE (fieldValue \div (256 ^ (i - 1))) % 256]]

\* EVENT_DATA_DESCRIPTOR EtwProvider::CreateTraceProperty(int fieldType, void* fieldValue)
CreateTraceProperty(m, e, fieldType, fieldValue) ==
    LET fieldSize == SizeOfField(fieldType, fieldValue)
        a == ExAllocatePoolWithTag(m, e, fieldSize, "wteE")
    IN  IF a.ptr = NULL
        THEN [m |-> a.m, desc |-> NullDesc]
        ELSE [m |-> Store(a.m, a.ptr, "void", CopiedBytes(fieldType, fieldValue, fieldSize),
                          fieldSize),
              desc |-> EventDataDescCreate(a.ptr, fieldSize)]

\* The field loop storing field i at dataDescriptors[i + 1].
RECURSIVE WriteEventFields_OffByOne(_, _, _, _, _)
WriteEventFields_OffByOne(m, e, dataDescriptors, fields, i) ==
    IF i > Len(fields) THEN [m |-> m, ok |-> TRUE]
    ELSE LET c == CreateTraceProperty(m, e, fields[i].type, fields[i].value)
             set == [c.m EXCEPT !.pool[dataDescriptors].data[i + 1] = c.desc]
         IN  IF c.desc.Ptr = NULL
             THEN [m |-> set, ok |-> FALSE]
             ELSE WriteEventFields_OffByOne(set, e, dataDescriptors, fields, i + 1)

\* The field loop going on after a field whose allocation failed.
RECURSIVE WriteEventFields_IgnoresNull(_, _, _, _, _)
WriteEventFields_IgnoresNull(m, e, dataDescriptors, fields, i) ==
    IF i > Len(fields) THEN [m |-> m, ok |-> TRUE]
    ELSE LET c == CreateTraceProperty(m, e, fields[i].type, fields[i].value)
             set == [c.m EXCEPT !.pool[dataDescriptors].data[i + 2] = c.desc]
         IN  WriteEventFields_IgnoresNull(set, e, dataDescriptors, fields, i + 1)

\* The field loop of WriteEvent from field i on; dataDescriptors is the
\* pointer to the descriptor array.  ok = FALSE is the early return.
RECURSIVE WriteEventFields(_, _, _, _, _)
WriteEventFields(m, e, dataDescriptors, fields, i) ==
    IF i > Len(fields) THEN [m |-> m, ok |-> TRUE]
    ELSE LET c == CreateTraceProperty(m, e, fields[i].type, fields[i].value)
             set == [c.m EXCEPT !.pool[dataDescriptors].data[i + 2] = c.desc]
         IN  IF c.desc.Ptr = NULL
             THEN [m |-> set, ok |-> FALSE]
             ELSE WriteEventFields(set, e, dataDescriptors, fields, i + 1)

\* sizeof(EVENT_DATA_DESCRIPTOR)
SizeofEventDataDescriptor == 16

\* EtwProvider::WriteEvent once the event is found at index `event` of
\* m_events: the descriptor array, the field loop and the write.
WriteFound(m, e, at, event, eventDescriptor, fields) ==
    LET provider == m.cache[at]
        numberOfDescriptors == Len(fields) + 2
        allocSize == numberOfDescriptors * SizeofEventDataDescriptor
        a == ExAllocatePoolWithTag(m, e, allocSize, "wteP")
        zeroed == Store(a.m, a.ptr, "EVENT_DATA_DESCRIPTOR",
                        [i \in 1..numberOfDescriptors |-> NullDesc], allocSize)
        meta == [zeroed EXCEPT
                    !.pool[a.ptr].data[1] = provider.m_providerMetadataDesc,
                    !.pool[a.ptr].data[2] = MetadataDescriptor(provider.m_events[event])]
        f == WriteEventFields(meta, e, a.ptr, fields, 1)
    IN  IF a.ptr = NULL
        THEN [m |-> a.m, status |-> STATUS_UNSUCCESSFUL]
        ELSE IF ~f.ok
        THEN [m |-> f.m, status |-> STATUS_UNSUCCESSFUL]
        ELSE EtwWrite(f.m, e, provider.m_regHandle, eventDescriptor,
                      numberOfDescriptors, a.ptr)

\* WriteEvent allocating the descriptor array before it looks the event up.
WriteEvent_AllocatesFirst(m, e, at, eventName, eventDescriptor, fields) ==
    LET event == EtwProvider_FindEvent(m.pool, m.cache[at], eventName)
        a == ExAllocatePoolWithTag(m, e, (Len(fields) + 2) * SizeofEventDataDescriptor, "wteP")
    IN  IF event = 0
        THEN [m |-> a.m, status |-> STATUS_UNSUCCESSFUL]
        ELSE WriteFound(m, e, at, event, eventDescriptor, fields)

\* NTSTATUS EtwProvider::WriteEvent(eventName, eventDescriptor, numberOfFields, fields)
\* on the provider at index `at` of the cache.
EtwProvider_WriteEvent(m, e, at, eventName, eventDescriptor, fields) ==
    LET event == EtwProvider_FindEvent(m.pool, m.cache[at], eventName)
    IN  IF event = 0
        THEN [m |-> m, status |-> STATUS_UNSUCCESSFUL]
        ELSE WriteFound(m, e, at, event, eventDescriptor, fields)

---------------------------------------------------------------------------
(* Free functions *)

\* The field-by-field comparison of two GUIDs in FindProvider.
GuidEqual(a, b) ==
    /\ a.Data1 = b.Data1
    /\ a.Data2 = b.Data2
    /\ a.Data3 = b.Data3
    /\ \A k \in 1..8 : a.Data4[k] = b.Data4[k]

\* FindProvider with the scan starting at the second provider.
FindProvider_SkipsFirst(cache, providerGuid) ==
    LET hits == { i \in 2..Len(cache) : GuidEqual(cache[i].m_guid, providerGuid) }
    IN  IF hits = {} THEN 0 ELSE CHOOSE i \in hits : \A j \in hits : i <= j

\* detail::EtwProvider* FindProvider(LPCGUID providerGuid):
\* the index of the first provider with that GUID in the cache, 0 for NULL.
FindProvider(cache, providerGuid) ==
    LET hits == { i \in 1..Len(cache) : GuidEqual(cache[i].m_guid, providerGuid) }
    IN  IF hits = {} THEN 0 ELSE CHOOSE i \in hits : \A j \in hits : i <= j

\* EVENT_DESCRIPTOR CreateEventDescriptor(uint64_t keyword, uint8_t level)
CreateEventDescriptor(keyword, level) ==
    [Id |-> 0, Version |-> 0, Channel |-> ManifestFreeChannel, Level |-> level,
     Opcode |-> 0, Task |-> 0, Keyword |-> keyword]

\* EtwTrace returning STATUS_SUCCESS whatever WriteEvent returned.
EtwTracePassive_DropsStatus(m, e, providerName, providerGuid, eventName, eventLevel, keyword, fields) ==
    LET found == FindProvider(m.cache, providerGuid)
        init == EtwProvider_Initialize(m, e, EtwProvider(providerGuid), providerName)
        pushed == [init.m EXCEPT !.cache = Append(@, init.provider)]
        resolved == IF found = 0 THEN pushed ELSE m
        etwProvider == IF found = 0 THEN Len(pushed.cache) ELSE found
        add == EtwProvider_AddEvent(resolved, e, etwProvider, eventName, fields)
        eventDesc == CreateEventDescriptor(keyword, eventLevel)
        w == EtwProvider_WriteEvent(add.m, e, etwProvider, eventName, eventDesc, fields)
    IN  IF found = 0 /\ init.status # STATUS_SUCCESS
        THEN [m |-> init.m, status |-> init.status]
        ELSE IF add.status # STATUS_SUCCESS
        THEN [m |-> add.m, status |-> add.status]
        ELSE [m |-> w.m, status |-> STATUS_SUCCESS]

\* EtwTrace going from the provider straight to WriteEvent, without AddEvent.
EtwTracePassive_NoAddEvent(m, e, providerName, providerGuid, eventName, eventLevel, keyword, fields) ==
    LET found == FindProvider(m.cache, providerGuid)
        init == EtwProvider_Initialize(m, e, EtwProvider(providerGuid), providerName)
        pushed == [init.m EXCEPT !.cache = Append(@, init.provider)]
        resolved == IF found = 0 THEN pushed ELSE m
        etwProvider == IF found = 0 THEN Len(pushed.cache) ELSE found
        eventDesc == CreateEventDescriptor(keyword, eventLevel)
    IN  IF found = 0 /\ init.status # STATUS_SUCCESS
        THEN [m |-> init.m, status |-> init.status]
        ELSE EtwProvider_WriteEvent(resolved, e, etwProvider, eventName, eventDesc, fields)

\* EtwTrace once the IRQL check has passed: resolve the provider, add the
\* event, write it.  MyVector::push_back appends, and back() is the element
\* appended.  The local newEtwProvider that fails to initialise goes out of
\* scope as it is: Destruct is a method someone has to call, and nobody does.
EtwTracePassive(m, e, providerName, providerGuid, eventName, eventLevel, keyword, fields) ==
    LET found == FindProvider(m.cache, providerGuid)
        init == EtwProvider_Initialize(m, e, EtwProvider(providerGuid), providerName)
        pushed == [init.m EXCEPT !.cache = Append(@, init.provider)]
        resolved == IF found = 0 THEN pushed ELSE m
        etwProvider == IF found = 0 THEN Len(pushed.cache) ELSE found
        add == EtwProvider_AddEvent(resolved, e, etwProvider, eventName, fields)
        eventDesc == CreateEventDescriptor(keyword, eventLevel)
    IN  IF found = 0 /\ init.status # STATUS_SUCCESS
        THEN [m |-> init.m, status |-> init.status]
        ELSE IF add.status # STATUS_SUCCESS
        THEN [m |-> add.m, status |-> add.status]
        ELSE EtwProvider_WriteEvent(add.m, e, etwProvider, eventName, eventDesc, fields)

\* EtwTrace without the IRQL check.
EtwTrace_NoIrqlCheck(m, e, irql, providerName, providerGuid, eventName, eventLevel, keyword, fields) ==
    EtwTracePassive(m, e, providerName, providerGuid, eventName, eventLevel, keyword, fields)

\* NTSTATUS EtwTrace(providerName, providerGuid, eventName, eventLevel, keyword,
\*                   numberOfFields, ...)
\* KeGetCurrentIrql() answers irql.
EtwTraceCall(m, e, irql, providerName, providerGuid, eventName, eventLevel, keyword, fields) ==
    IF irql > PASSIVE_LEVEL
    THEN [m |-> m, status |-> STATUS_UNSUCCESSFUL]
    ELSE EtwTracePassive(m, e, providerName, providerGuid, eventName, eventLevel,
                         keyword, fields)

---------------------------------------------------------------------------
(* The state machine. *)

NoGuid == [Data1 |-> 0, Data2 |-> 0, Data3 |-> 0, Data4 |-> <<0, 0, 0, 0, 0, 0, 0, 0>>]

NoCall ==
    [op |-> "none", irql |-> PASSIVE_LEVEL, env |-> NoFault, at |-> 0,
     providerName |-> "", providerGuid |-> NoGuid, eventName |-> "", fields |-> <<>>,
     repeat |-> FALSE, status |-> STATUS_SUCCESS,
     nAlloc |-> 0, nRegister |-> 0, nSetTraits |-> 0, nWrite |-> 0, write |-> NoWrite]

\* The two threads that call EtwTrace concurrently.
Threads == {"T1", "T2"}

\* A thread that has not entered EtwTrace.  c is its call site, etwProvider
\* and event the results of FindProvider and FindEvent (indices, 0 = NULL),
\* seenProviders and seenEvents the number of elements the two lookups
\* scanned, pushedProvider and pushedEvent the index of what it appended.
NoThread ==
    [pc |-> "idle",
     c |-> [providerName |-> "", providerGuid |-> NoGuid, eventName |-> "",
            eventLevel |-> 0, keyword |-> 0, fields |-> <<>>],
     etwProvider |-> 0, seenProviders |-> 0, pushedProvider |-> 0,
     event |-> 0, seenEvents |-> 0, pushedEvent |-> 0,
     status |-> STATUS_SUCCESS, write |-> NoWrite]

Init ==
    /\ threads = [t \in Threads |-> NoThread]
    /\ g_ProviderCache = <<>>
    /\ pool = <<>>
    /\ etw = <<>>
    /\ last = NoCall
    /\ succeeded = {}
    /\ ncalls = 0

\* The state a call leaves behind, and the record of the call: who was
\* called with what, in which environment, what it returned and which
\* external primitives it called.
Returned(r, call) ==
    /\ g_ProviderCache' = r.m.cache
    /\ pool' = r.m.pool
    /\ etw' = r.m.etw
    /\ last' = [call EXCEPT !.status = r.status,
                            !.nAlloc = r.m.nAlloc, !.nRegister = r.m.nRegister,
                            !.nSetTraits = r.m.nSetTraits, !.nWrite = r.m.nWrite,
                            !.write = r.m.write]
    /\ ncalls' = ncalls + 1
    /\ UNCHANGED threads

\* A call site invokes EtwTrace.
EtwTrace ==
    /\ ncalls < MaxCalls
    /\ \E irql \in Irqls, c \in CallSites :
          \E e \in EnvsFor(EtwTraceCall(Machine(g_ProviderCache, pool, etw), NoFault, irql,
                                        c.providerName, c.providerGuid, c.eventName,
                                        c.eventLevel, c.keyword, c.fields).m) :
          LET r == EtwTraceCall(Machine(g_ProviderCache, pool, etw), e, irql,
                                c.providerName, c.providerGuid, c.eventName,
                                c.eventLevel, c.keyword, c.fields)
          IN  /\ Returned(r, [NoCall EXCEPT !.op = "EtwTrace", !.irql = irql, !.env = e,
                                            !.at = FindProvider(r.m.cache, c.providerGuid),
                                            !.providerName = c.providerName,
                                            !.providerGuid = c.providerGuid,
                                            !.eventName = c.eventName,
                                            !.fields = c.fields,
                                            !.repeat = c \in succeeded])
              /\ succeeded' = IF r.status = STATUS_SUCCESS
                              THEN succeeded \cup {c} ELSE succeeded

\* A caller invokes EtwProvider::AddEvent on a cached provider.
AddEvent ==
    /\ ncalls < MaxCalls
    /\ \E at \in 1..Len(g_ProviderCache), c \in Events :
          \E e \in EnvsFor(EtwProvider_AddEvent(Machine(g_ProviderCache, pool, etw), NoFault,
                                                at, c.eventName, c.fields).m) :
          LET r == EtwProvider_AddEvent(Machine(g_ProviderCache, pool, etw), e, at,
                                        c.eventName, c.fields)
          IN  /\ Returned(r, [NoCall EXCEPT !.op = "AddEvent", !.env = e, !.at = at,
                                            !.providerGuid = g_ProviderCache[at].m_guid,
                                            !.eventName = c.eventName,
                                            !.fields = c.fields])
              /\ UNCHANGED succeeded

\* A caller invokes EtwProvider::WriteEvent on a cached provider.
WriteEvent ==
    /\ ncalls < MaxCalls
    /\ \E at \in 1..Len(g_ProviderCache), c \in Events :
          \E e \in EnvsFor(EtwProvider_WriteEvent(Machine(g_ProviderCache, pool, etw), NoFault,
                                                  at, c.eventName,
                                                  CreateEventDescriptor(c.keyword, c.eventLevel),
                                                  c.fields).m) :
          LET r == EtwProvider_WriteEvent(Machine(g_ProviderCache, pool, etw), e, at,
                                          c.eventName,
                                          CreateEventDescriptor(c.keyword, c.eventLevel),
                                          c.fields)
          IN  /\ Returned(r, [NoCall EXCEPT !.op = "WriteEvent", !.env = e, !.at = at,
                                            !.providerGuid = g_ProviderCache[at].m_guid,
                                            !.eventName = c.eventName,
                                            !.fields = c.fields])
              /\ UNCHANGED succeeded

Next == EtwTrace \/ AddEvent \/ WriteEvent

Spec == Init /\ [][Next]_vars

---------------------------------------------------------------------------
(* The Initialize routines on their own: a caller constructs a provider or *)
(* an event object and initialises it, with names of any length.           *)

\* A string of n characters.
RECURSIVE Chars(_)
Chars(n) ==
    IF n = 0 THEN ""
    ELSE IF n % 2 = 1 THEN "x" \o Chars(n - 1)
    ELSE LET half == Chars(n \div 2) IN half \o half

\* A field whose name has 65530 characters.
Wide == [name |-> Chars(65530), type |-> EtwFieldUInt32, value |-> 0]

\* Provider names up to and across what a 16-bit length can hold
\* (65532 + 1 + 2 = 65535).
LongProviderNames == {"Contoso", "Fabrikam", Chars(65532), Chars(65533)}

\* Event names and field lists up to and across it
\* ("Logout": 6 + 4 + 65532 = 65542; "": 0 + 4 + 65532 = 65536;
\*  a 65531-character name with no field: 65535).
LongEventNames == {"UserLogin", "Logout", "", Chars(65531)}
LongFieldLists == {<<>>, <<UserId>>, <<UserId, User>>, <<Wide>>, <<UserId, Wide>>}

\* Some block of the pool has been written past its end.  What the program
\* does after such a write is undefined: the model follows it no further.
Overrun == \E b \in 1..Len(pool) : pool[b].extent > pool[b].NumberOfBytes

\* A caller initialises a fresh EtwProviderEvent.
InitializeEvent ==
    /\ ncalls < MaxCalls
    /\ ~Overrun
    /\ \E eventName \in LongEventNames, fields \in LongFieldLists :
          \E e \in EnvsFor(EtwProviderEvent_Initialize(Machine(g_ProviderCache, pool, etw),
                                                       NoFault, eventName, fields).m) :
          LET r == EtwProviderEvent_Initialize(Machine(g_ProviderCache, pool, etw), e,
                                               eventName, fields)
          IN  /\ Returned(r, [NoCall EXCEPT !.op = "EtwProviderEvent::Initialize",
                                            !.env = e, !.eventName = eventName,
                                            !.fields = fields])
              /\ UNCHANGED succeeded

\* A caller initialises a fresh EtwProvider.
InitializeProvider ==
    /\ ncalls < MaxCalls
    /\ ~Overrun
    /\ \E providerName \in LongProviderNames, providerGuid \in Guids :
          \E e \in EnvsFor(EtwProvider_Initialize(Machine(g_ProviderCache, pool, etw), NoFault,
                                                  EtwProvider(providerGuid), providerName).m) :
          LET r == EtwProvider_Initialize(Machine(g_ProviderCache, pool, etw), e,
                                          EtwProvider(providerGuid), providerName)
          IN  /\ Returned(r, [NoCall EXCEPT !.op = "EtwProvider::Initialize",
                                            !.env = e, !.providerName = providerName,
                                            !.providerGuid = providerGuid])
              /\ UNCHANGED succeeded

NextInitialize == InitializeEvent \/ InitializeProvider

SpecInitialize == Init /\ [][NextInitialize]_vars

---------------------------------------------------------------------------
(* Teardown: the providers of the cache are destructed. *)

\* void EtwProviderEvent::Destruct()
EtwProviderEvent_Destruct(m, event) ==
    IF event.m_eventMetadataDesc.Ptr # NULL
    THEN ExFreePool(m, event.m_eventMetadataDesc.Ptr)
    ELSE m

\* The loop of EtwProvider::Destruct over m_events, from index i on.
RECURSIVE DestructEvents(_, _, _)
DestructEvents(m, events, i) ==
    IF i > Len(events) THEN m
    ELSE DestructEvents(EtwProviderEvent_Destruct(m, events[i]), events, i + 1)

\* void EtwProvider::Destruct() on the provider at index `at` of the cache.
\* The object's handle and descriptor keep their values; m_events.Destruct()
\* leaves the vector without elements.
EtwProvider_Destruct(m, at) ==
    LET provider == m.cache[at]
        events == [DestructEvents(m, provider.m_events, 1) EXCEPT !.cache[at].m_events = <<>>]
        unregistered == IF provider.m_regHandle # 0
                        THEN EtwUnregister(events, provider.m_regHandle)
                        ELSE events
    IN  IF provider.m_providerMetadataDesc.Ptr # NULL
        THEN ExFreePool(unregistered, provider.m_providerMetadataDesc.Ptr)
        ELSE unregistered

\* Destruct on every provider of the cache from index i on.
RECURSIVE DestructProviders(_, _)
DestructProviders(m, i) ==
    IF i > Len(m.cache) THEN m
    ELSE DestructProviders(EtwProvider_Destruct(m, i), i + 1)

\* No teardown has happened.
Running == last.op # "Destruct"

\* Process-wide teardown: every cached provider is destructed, once, and no
\* call follows.
Teardown ==
    /\ ncalls < MaxCalls
    /\ Running
    /\ Returned([m |-> DestructProviders(Machine(g_ProviderCache, pool, etw), 1),
                 status |-> STATUS_SUCCESS],
                [NoCall EXCEPT !.op = "Destruct"])
    /\ UNCHANGED succeeded

Call == Running /\ Next

NextLifecycle == Call \/ Teardown

SpecLifecycle == Init /\ [][NextLifecycle]_vars

---------------------------------------------------------------------------
(* Two threads call EtwTrace concurrently.  Nothing in EtwTrace takes a    *)
(* lock, so the threads interleave between its statements.  A step is one  *)
(* access to the shared cache with the thread-local work that follows it;  *)
(* a pointer into the cache is the index of the element.  MyVector's       *)
(* push_back is taken as one step that appends and moves no element.       *)

\* The state of thread t becomes th.
Becomes(t, th) == threads' = [threads EXCEPT ![t] = th]

\* Lines 417-425: the thread enters EtwTrace at PASSIVE_LEVEL from a call
\* site and looks its provider up.
ThreadFindProvider(t) ==
    /\ threads[t].pc = "idle"
    /\ \E c \in CallSites :
          LET etwProvider == FindProvider(g_ProviderCache, c.providerGuid)
          IN  Becomes(t, [threads[t] EXCEPT
                              !.pc = IF etwProvider = 0 THEN "newEtwProvider" ELSE "AddEvent",
                              !.c = c,
                              !.etwProvider = etwProvider,
                              !.seenProviders = Len(g_ProviderCache)])
    /\ UNCHANGED <<g_ProviderCache, pool, etw, last, succeeded, ncalls>>

\* Lines 427-435: the lookup returned NULL; the thread initialises a new
\* provider and, unless that fails, appends it to the cache.
ThreadCreateProvider(t) ==
    /\ threads[t].pc = "newEtwProvider"
    /\ LET th == threads[t]
           m == Machine(g_ProviderCache, pool, etw)
       IN  \E e \in EnvsFor(EtwProvider_Initialize(m, NoFault, EtwProvider(th.c.providerGuid),
                                                   th.c.providerName).m) :
              LET r == EtwProvider_Initialize(m, e, EtwProvider(th.c.providerGuid),
                                              th.c.providerName)
              IN  /\ pool' = r.m.pool
                  /\ etw' = r.m.etw
                  /\ IF r.status # STATUS_SUCCESS
                     THEN /\ UNCHANGED g_ProviderCache
                          /\ Becomes(t, [th EXCEPT !.pc = "done", !.status = r.status])
                     ELSE /\ g_ProviderCache' = Append(g_ProviderCache, r.provider)
                          /\ Becomes(t, [th EXCEPT !.pc = "AddEvent",
                                                   !.etwProvider = Len(g_ProviderCache) + 1,
                                                   !.pushedProvider = Len(g_ProviderCache) + 1])
    /\ UNCHANGED <<last, succeeded, ncalls>>

\* Lines 441, 213: AddEvent looks the event up in the provider.
ThreadFindEvent(t) ==
    /\ threads[t].pc = "AddEvent"
    /\ LET th == threads[t]
           provider == g_ProviderCache[th.etwProvider]
           event == EtwProvider_FindEvent(pool, provider, th.c.eventName)
       IN  Becomes(t, [th EXCEPT !.pc = IF event = 0 THEN "event" ELSE "WriteEvent",
                                 !.event = event,
                                 !.seenEvents = Len(provider.m_events)])
    /\ UNCHANGED <<g_ProviderCache, pool, etw, last, succeeded, ncalls>>

\* Lines 215-221, 442-445: the lookup returned NULL; AddEvent initialises a
\* new event and, unless that fails, appends it to the provider's events.
ThreadCreateEvent(t) ==
    /\ threads[t].pc = "event"
    /\ LET th == threads[t]
           m == Machine(g_ProviderCache, pool, etw)
       IN  \E e \in EnvsFor(EtwProviderEvent_Initialize(m, NoFault, th.c.eventName,
                                                        th.c.fields).m) :
              LET r == EtwProviderEvent_Initialize(m, e, th.c.eventName, th.c.fields)
                  events == g_ProviderCache[th.etwProvider].m_events
              IN  /\ pool' = r.m.pool
                  /\ IF r.status # STATUS_SUCCESS
                     THEN /\ UNCHANGED g_ProviderCache
                          /\ Becomes(t, [th EXCEPT !.pc = "done", !.status = r.status])
                     ELSE /\ g_ProviderCache' =
                                [g_ProviderCache EXCEPT ![th.etwProvider].m_events =
                                                            Append(events, r.event)]
                          /\ Becomes(t, [th EXCEPT !.pc = "WriteEvent",
                                                   !.pushedEvent = Len(events) + 1])
    /\ UNCHANGED <<etw, last, succeeded, ncalls>>

\* Lines 449-457: the thread writes the event and returns.
ThreadWriteEvent(t) ==
    /\ threads[t].pc = "WriteEvent"
    /\ LET th == threads[t]
           m == Machine(g_ProviderCache, pool, etw)
           eventDesc == CreateEventDescriptor(th.c.keyword, th.c.eventLevel)
       IN  \E e \in EnvsFor(EtwProvider_WriteEvent(m, NoFault, th.etwProvider, th.c.eventName,
                                                   eventDesc, th.c.fields).m) :
              LET r == EtwProvider_WriteEvent(m, e, th.etwProvider, th.c.eventName,
                                              eventDesc, th.c.fields)
              IN  /\ pool' = r.m.pool
                  /\ Becomes(t, [th EXCEPT !.pc = "done", !.status = r.status,
                                           !.write = r.m.write])
    /\ UNCHANGED <<g_ProviderCache, etw, last, succeeded, ncalls>>

NextConcurrent ==
    \E t \in Threads :
        \/ ThreadFindProvider(t)
        \/ ThreadCreateProvider(t)
        \/ ThreadFindEvent(t)
        \/ ThreadCreateEvent(t)
        \/ ThreadWriteEvent(t)

SpecConcurrent == Init /\ [][NextConcurrent]_vars

---------------------------------------------------------------------------
(* Properties. *)

\* The step is a call of `op`.
Called(op) == ncalls' = ncalls + 1 /\ last'.op = op

\* The providers of a cache with a given GUID, the events of a provider with
\* a given name.
ProvidersWith(cache, guid) ==
    { i \in 1..Len(cache) : GuidEqual(cache[i].m_guid, guid) }

EventsNamed(p, provider, eventName) ==
    { i \in 1..Len(provider.m_events) :
        p[provider.m_events[i].m_eventMetadataDesc.Ptr].data.EventName = eventName }

\* C1: the cache never holds two providers with one GUID, and an EtwTrace
\* call for a GUID that is cached uses the cached provider: it registers
\* nothing, appends nothing and leaves that provider's identity (GUID, handle,
\* provider metadata) as it was.
C1_OneProviderPerGuid ==
    [][ /\ \A i, j \in 1..Len(g_ProviderCache') :
              GuidEqual(g_ProviderCache'[i].m_guid, g_ProviderCache'[j].m_guid) => i = j
        /\ ( /\ Called("EtwTrace")
             /\ last'.irql = PASSIVE_LEVEL
             /\ ProvidersWith(g_ProviderCache, last'.providerGuid) # {} )
           => /\ Len(g_ProviderCache') = Len(g_ProviderCache)
              /\ last'.nRegister = 0
              /\ etw' = etw
              /\ last'.at \in ProvidersWith(g_ProviderCache, last'.providerGuid)
              /\ g_ProviderCache'[last'.at].m_regHandle
                    = g_ProviderCache[last'.at].m_regHandle
              /\ g_ProviderCache'[last'.at].m_providerMetadataDesc
                    = g_ProviderCache[last'.at].m_providerMetadataDesc
      ]_vars

\* C1 witness: a second EtwTrace call for the one cached GUID has returned,
\* having registered nothing.
C1_Witness ==
    /\ last.op = "EtwTrace" /\ last.irql = PASSIVE_LEVEL
    /\ ncalls >= 2
    /\ last.nRegister = 0
    /\ Len(g_ProviderCache) = 1 /\ last.at = 1
    /\ Len(etw) = 1

\* C2: AddEvent with a name the provider already has returns success,
\* allocates nothing and changes nothing, and the provider has exactly one
\* event of that name, whatever the field list of the call.
C2_AddEventIdempotent ==
    [][ ( /\ Called("AddEvent")
          /\ EventsNamed(pool, g_ProviderCache[last'.at], last'.eventName) # {} )
        => /\ last'.status = STATUS_SUCCESS
           /\ last'.nAlloc = 0
           /\ pool' = pool
           /\ g_ProviderCache' = g_ProviderCache
           /\ Cardinality(EventsNamed(pool', g_ProviderCache'[last'.at],
                                      last'.eventName)) = 1
      ]_vars

\* C2 witness: AddEvent has returned success without allocating, for a name
\* whose event was built from a different field list.
C2_Witness ==
    /\ last.op = "AddEvent" /\ last.status = STATUS_SUCCESS /\ last.nAlloc = 0
    /\ \E i \in EventsNamed(pool, g_ProviderCache[last.at], last.eventName) :
          pool[g_ProviderCache[last.at].m_events[i].m_eventMetadataDesc.Ptr].data.Fields
             # EventMetadataFields(last.fields)

\* C3: EtwTrace above PASSIVE_LEVEL returns a failure status, calls no
\* external primitive, allocates nothing and leaves the cache, the pool and
\* the registrations unchanged.
C3_DisallowedContextNoEffect ==
    [][ (Called("EtwTrace") /\ last'.irql > PASSIVE_LEVEL)
        => /\ last'.status # STATUS_SUCCESS
           /\ g_ProviderCache' = g_ProviderCache
           /\ pool' = pool
           /\ etw' = etw
           /\ last'.nRegister = 0 /\ last'.nSetTraits = 0 /\ last'.nWrite = 0
           /\ last'.nAlloc = 0
      ]_vars

\* C3 witness: EtwTrace has failed above PASSIVE_LEVEL with a provider cached.
C3_Witness ==
    /\ last.op = "EtwTrace" /\ last.irql > PASSIVE_LEVEL
    /\ last.status = STATUS_UNSUCCESSFUL
    /\ Len(g_ProviderCache) > 0

\* C4: WriteEvent for a name the provider has no event of returns
\* STATUS_UNSUCCESSFUL without allocating and without calling EtwWrite.
C4_WriteUnknownEventFails ==
    [][ ( /\ Called("WriteEvent")
          /\ EventsNamed(pool, g_ProviderCache[last'.at], last'.eventName) = {} )
        => /\ last'.status = STATUS_UNSUCCESSFUL
           /\ last'.nAlloc = 0
           /\ last'.nWrite = 0
           /\ ~last'.write.called
           /\ pool' = pool
      ]_vars

\* C4 witness: WriteEvent has failed on a provider that has events, none of
\* the name asked for.
C4_Witness ==
    /\ last.op = "WriteEvent" /\ last.status = STATUS_UNSUCCESSFUL
    /\ last.nAlloc = 0 /\ last.nWrite = 0
    /\ g_ProviderCache[last.at].m_events # <<>>
    /\ EventsNamed(pool, g_ProviderCache[last.at], last.eventName) = {}

\* The blocks a step has added to the pool.
NewBlocks == (Len(pool) + 1)..Len(pool')

\* C5: an EtwTrace call from a call site whose earlier call returned success,
\* at PASSIVE_LEVEL and with every primitive and allocation succeeding, calls
\* EtwRegister and EtwSetInformation zero times, builds no metadata block,
\* leaves the cache as it was, calls EtwWrite once and returns success.
C5_SecondCallReusesRegistration ==
    [][ ( /\ Called("EtwTrace")
          /\ last'.repeat
          /\ last'.irql = PASSIVE_LEVEL
          /\ last'.env = NoFault )
        => /\ last'.nRegister = 0
           /\ last'.nSetTraits = 0
           /\ \A b \in NewBlocks :
                 pool'[b].type \notin {"ProviderMetadata", "EventMetadata"}
           /\ g_ProviderCache' = g_ProviderCache
           /\ last'.nWrite = 1
           /\ last'.status = STATUS_SUCCESS
      ]_vars

\* C5 witness: the second call of a call site has returned success.
C5_Witness ==
    /\ last.op = "EtwTrace" /\ last.repeat /\ last.env = NoFault
    /\ last.status = STATUS_SUCCESS /\ last.nWrite = 1

\* The exact number of bytes an event metadata block serialises to: the
\* 16-bit length, the tag byte, the event name and its terminator, and per
\* field the name, its terminator and the type byte.
RECURSIVE SumFieldBytes(_, _)
SumFieldBytes(fs, i) ==
    IF i > Len(fs) THEN 0 ELSE Len(fs[i].FieldName) + 1 + 1 + SumFieldBytes(fs, i + 1)

SerializedLength(eventMetadata) ==
    2 + 1 + Len(eventMetadata.EventName) + 1 + SumFieldBytes(eventMetadata.Fields, 1)

\* C6: for every event metadata block Initialize has built, the TotalLength
\* stored in it, the size of the block and the exact serialised length are
\* equal, also for names whose exact length exceeds 65535.
C6_TotalLengthExact ==
    \A b \in 1..Len(pool) :
        pool[b].type = "EventMetadata"
        => /\ pool[b].data.TotalLength = pool[b].NumberOfBytes
           /\ pool[b].data.TotalLength = SerializedLength(pool[b].data)
           /\ pool[b].extent = SerializedLength(pool[b].data)

\* C7: for every provider name, the provider metadata block Initialize has
\* built holds TotalLength = len(name) + 1 + 2 and is that long; for
\* "Contoso" TotalLength is 10.
C7_ProviderMetadataLength ==
    \A b \in 1..Len(pool) :
        pool[b].type = "ProviderMetadata"
        => /\ pool[b].data.TotalLength = Len(pool[b].data.ProviderName) + 1 + 2
           /\ pool[b].NumberOfBytes = pool[b].data.TotalLength
           /\ pool[b].extent = pool[b].data.TotalLength
           /\ (pool[b].data.ProviderName = "Contoso" => pool[b].data.TotalLength = 10)

\* C8: when EtwTrace is called at PASSIVE_LEVEL for a GUID that is not
\* cached and EtwRegister, the provider metadata allocation (the first
\* allocation of the call) or EtwSetInformation fails, EtwTrace returns a
\* failure status, which is EtwRegister's or EtwSetInformation's own status
\* when that is what failed, and the cache is left exactly as it was.
C8_FailedInitializeNotCached ==
    [][ ( /\ Called("EtwTrace")
          /\ last'.irql = PASSIVE_LEVEL
          /\ ProvidersWith(g_ProviderCache, last'.providerGuid) = {}
          /\ \/ last'.env.reg # STATUS_SUCCESS
             \/ last'.env.allocFail = 1
             \/ last'.env.traits # STATUS_SUCCESS )
        => /\ last'.status # STATUS_SUCCESS
           /\ last'.env.reg # STATUS_SUCCESS => last'.status = last'.env.reg
           /\ last'.env.traits # STATUS_SUCCESS => last'.status = last'.env.traits
           /\ g_ProviderCache' = g_ProviderCache
           /\ ProvidersWith(g_ProviderCache', last'.providerGuid) = {}
      ]_vars

\* C8 witness: EtwSetInformation has failed in an EtwTrace call for a second
\* GUID; its status came back and the GUID is not in the cache.
C8_Witness ==
    /\ last.op = "EtwTrace" /\ last.irql = PASSIVE_LEVEL
    /\ last.env.traits # STATUS_SUCCESS
    /\ last.nSetTraits = 1
    /\ last.status = last.env.traits
    /\ Len(g_ProviderCache) = 1
    /\ ProvidersWith(g_ProviderCache, last.providerGuid) = {}

\* C9: whenever EtwWrite is called, for a call with n fields, it is passed
\* n + 2 descriptors: the provider's provider-metadata descriptor, the
\* metadata descriptor of the provider's event of that name, then for each
\* field in the caller's order a descriptor of a block holding that field's
\* value, of that field's size.
C9_DescriptorArrayLayout ==
    last.write.called
    => LET provider == g_ProviderCache[last.at]
           userData == pool[last.write.UserData].data
           n == Len(last.fields)
       IN  /\ last.write.UserDataCount = n + 2
           /\ Len(userData) = n + 2
           /\ last.write.RegHandle = provider.m_regHandle
           /\ userData[1] = provider.m_providerMetadataDesc
           /\ userData[1].Type = EVENT_DATA_DESCRIPTOR_TYPE_PROVIDER_METADATA
           /\ pool[userData[1].Ptr].type = "ProviderMetadata"
           /\ \E k \in EventsNamed(pool, provider, last.eventName) :
                 userData[2] = provider.m_events[k].m_eventMetadataDesc
           /\ userData[2].Type = EVENT_DATA_DESCRIPTOR_TYPE_EVENT_METADATA
           /\ pool[userData[2].Ptr].type = "EventMetadata"
           /\ \A i \in 1..n :
                 LET f == last.fields[i]
                     size == SizeOfField(f.type, f.value)
                 IN  /\ userData[i + 2].Ptr # NULL
                     /\ userData[i + 2].Size = size
                     /\ userData[i + 2].Type = EVENT_DATA_DESCRIPTOR_TYPE_NONE
                     /\ pool[userData[i + 2].Ptr].NumberOfBytes = size
                     /\ pool[userData[i + 2].Ptr].data = CopiedBytes(f.type, f.value, size)
           /\ \A i, j \in 1..(n + 2) : userData[i].Ptr = userData[j].Ptr => i = j

\* C9 witness: EtwWrite has been called for a call with two fields.
C9_Witness ==
    /\ last.write.called
    /\ Len(last.fields) = 2
    /\ last.write.UserDataCount = 4

\* C10: an EtwTrace call at PASSIVE_LEVEL in which EtwRegister,
\* EtwSetInformation and every allocation succeed calls EtwWrite exactly once
\* and returns the status EtwWrite returned; an EtwTrace call that fails the
\* IRQL check or in which one of them fails calls EtwWrite zero times.
C10_ExactlyOneWrite ==
    last.op = "EtwTrace"
    => LET successPath == /\ last.irql = PASSIVE_LEVEL
                          /\ last.env.reg = STATUS_SUCCESS
                          /\ last.env.traits = STATUS_SUCCESS
                          /\ last.env.allocFail = 0
       IN  /\ successPath => /\ last.nWrite = 1
                             /\ last.write.called
                             /\ last.status = last.env.wr
           /\ ~successPath => /\ last.nWrite = 0
                              /\ ~last.write.called
                              /\ last.status # STATUS_SUCCESS

\* C10 witness: EtwWrite has failed in an EtwTrace call, and EtwTrace has
\* returned its status.
C10_Witness ==
    /\ last.op = "EtwTrace" /\ last.nWrite = 1
    /\ last.env.wr # STATUS_SUCCESS
    /\ last.status = last.env.wr

---------------------------------------------------------------------------
(* Memory: which blocks of the pool are allocated, and who owns them. *)

\* The blocks that are allocated and not freed.
LiveBlocks == {b \in 1..Len(pool) : pool[b].live}

\* The blocks a call allocates for itself: the array of data descriptors
\* and the copies of the field values.
PerWriteBlocks == {b \in LiveBlocks : pool[b].type \in {"EVENT_DATA_DESCRIPTOR", "void"}}

\* C11: when WriteEvent has returned, on any path, the descriptor array and
\* the buffers of the field values it allocated are released: between
\* calls the only allocated blocks are provider and event metadata.
C11_PerWriteBuffersReleased == PerWriteBlocks = {}

---------------------------------------------------------------------------
(* Fields of unsupported types *)

\* The fields of the last call for which SizeOfField returns 0.
UnsupportedFields ==
    {i \in 1..Len(last.fields) : SizeOfField(last.fields[i].type, last.fields[i].value) = 0}

\* C12: a call that passes a field of an unsupported type (Unicode string,
\* binary, pointer), for which SizeOfField returns 0, fails and does not
\* reach Write with a zero-length field descriptor.
C12_UnsupportedTypeRejected ==
    (last.op \in {"EtwTrace", "WriteEvent"} /\ UnsupportedFields # {})
        => /\ last.status # STATUS_SUCCESS
           /\ ~last.write.called

---------------------------------------------------------------------------
(* The life of a provider *)

\* The provider at index i of the cache is registered: it holds a handle
\* the tracing subsystem has registered for its GUID, and a provider
\* metadata descriptor over an allocated, non-empty blob installed as the
\* handle's traits.
Registered(i) ==
    LET provider == g_ProviderCache[i]
        h == provider.m_regHandle
        d == provider.m_providerMetadataDesc
    IN  /\ h # 0
        /\ etw[h].registered
        /\ etw[h].guid = provider.m_guid
        /\ d.Ptr # NULL
        /\ d.Size > 0
        /\ d.Type = EVENT_DATA_DESCRIPTOR_TYPE_PROVIDER_METADATA
        /\ pool[d.Ptr].live
        /\ pool[d.Ptr].type = "ProviderMetadata"
        /\ etw[h].traits = d.Ptr

\* The provider at index i of the cache is destroyed: its handle is
\* unregistered and its blobs are freed.
Destroyed(i) ==
    LET provider == g_ProviderCache[i]
    IN  /\ ~etw[provider.m_regHandle].registered
        /\ ~pool[provider.m_providerMetadataDesc.Ptr].live
        /\ provider.m_events = <<>>

\* The names of the events of a provider.
EventNames(p, provider) ==
    {EtwProviderEvent_Name(p, provider.m_events[k]) : k \in 1..Len(provider.m_events)}

\* C13: until teardown a cached provider only gains events: a step leaves
\* its events as they are or appends one event with a name it did not have,
\* and changes neither its GUID, its handle nor its provider metadata
\* descriptor; every provider of the cache is registered with a non-empty
\* provider metadata descriptor; teardown takes every provider to destroyed.
C13_ProviderLifecycle ==
    [][ /\ Running' =>
            /\ Len(g_ProviderCache') \in {Len(g_ProviderCache), Len(g_ProviderCache) + 1}
            /\ \A i \in 1..Len(g_ProviderCache') : Registered(i)'
            /\ \A i \in 1..Len(g_ProviderCache) :
                  LET old == g_ProviderCache[i]
                      new == g_ProviderCache'[i]
                  IN  /\ new.m_guid = old.m_guid
                      /\ new.m_regHandle = old.m_regHandle
                      /\ new.m_providerMetadataDesc = old.m_providerMetadataDesc
                      /\ \/ new.m_events = old.m_events
                         \/ /\ Len(new.m_events) = Len(old.m_events) + 1
                            /\ SubSeq(new.m_events, 1, Len(old.m_events)) = old.m_events
                            /\ EtwProviderEvent_Name(pool', new.m_events[Len(new.m_events)])
                                  \notin EventNames(pool, old)
                            /\ EventNames(pool, old) \subseteq EventNames(pool', new)
        /\ ~Running' =>
            /\ Len(g_ProviderCache') = Len(g_ProviderCache)
            /\ \A i \in 1..Len(g_ProviderCache') : Destroyed(i)'
      ]_vars

\* A provider that gained two events has been destroyed at teardown.
C13_Witness ==
    /\ last.op = "Destruct"
    /\ Len(g_ProviderCache) = 1
    /\ Cardinality({b \in 1..Len(pool) : pool[b].type = "EventMetadata" /\ ~pool[b].live}) = 2

---------------------------------------------------------------------------
(* A call site whose field list differs from the registered one *)

\* C14: a write for an event name that is already registered passes in
\* slot 1 the blob of the first registration, and as many field descriptors
\* as that blob records (name, type) tuples, whatever field list the call
\* itself supplied.
C14_WriteMatchesRegisteredMetadata ==
    last.write.called =>
        LET dataDescriptors == pool[last.write.UserData].data
            k == EtwProvider_FindEvent(pool, g_ProviderCache[last.at], last.eventName)
            blob == pool[dataDescriptors[2].Ptr]
        IN  /\ k # 0
            /\ dataDescriptors[2] = MetadataDescriptor(g_ProviderCache[last.at].m_events[k])
            /\ blob.type = "EventMetadata"
            /\ blob.data.EventName = last.eventName
            /\ last.write.UserDataCount - 2 = Len(blob.data.Fields)

---------------------------------------------------------------------------
(* Concurrent callers *)

\* The pairs of cache indices i < j whose providers have one GUID.
DuplicateProviders ==
    {ij \in (1..Len(g_ProviderCache)) \X (1..Len(g_ProviderCache)) :
        /\ ij[1] < ij[2]
        /\ GuidEqual(g_ProviderCache[ij[1]].m_guid, g_ProviderCache[ij[2]].m_guid)}

\* C15: with two unsynchronised callers the cache can hold two providers for
\* one GUID, and only by the race between lookup and append: the later of
\* the two was appended by a thread whose FindProvider ran before the
\* earlier one was in the cache.  A thread whose lookup sees everything
\* appended before its own append adds no duplicate.
C15_DuplicateProviderOnlyByRace ==
    \A ij \in DuplicateProviders :
        \E t \in Threads :
            /\ threads[t].pushedProvider = ij[2]
            /\ threads[t].seenProviders < ij[1]

\* Both threads missed, both registered, both appended: two providers and
\* two registrations for one GUID.
C15_Witness ==
    /\ \A t \in Threads : threads[t].pc = "done"
    /\ \E ij \in DuplicateProviders :
          LET h1 == g_ProviderCache[ij[1]].m_regHandle
              h2 == g_ProviderCache[ij[2]].m_regHandle
          IN  /\ h1 # h2
              /\ etw[h1].registered /\ etw[h2].registered
              /\ etw[h1].guid = etw[h2].guid

\* The triples (provider at, event indices i < j) of two events of one
\* provider with one name.
DuplicateEvents ==
    UNION { LET events == g_ProviderCache[at].m_events
            IN  {<<at, i, j>> : <<i, j>> \in
                    {ij \in (1..Len(events)) \X (1..Len(events)) :
                        /\ ij[1] < ij[2]
                        /\ EtwProviderEvent_Name(pool, events[ij[1]])
                               = EtwProviderEvent_Name(pool, events[ij[2]])}}
            : at \in 1..Len(g_ProviderCache) }

\* C16: with two unsynchronised callers on one cached provider its events can
\* hold one name twice, and only by the race between lookup and append: the
\* later of the two was appended by a thread whose FindEvent ran before the
\* earlier one was among the provider's events.
C16_DuplicateEventOnlyByRace ==
    \A pij \in DuplicateEvents :
        \E t \in Threads :
            /\ threads[t].etwProvider = pij[1]
            /\ threads[t].pushedEvent = pij[3]
            /\ threads[t].seenEvents < pij[2]

\* Both threads found the one cached provider, both missed the event, both
\* appended it.
C16_Witness ==
    /\ Len(g_ProviderCache) = 1
    /\ \A t \in Threads : threads[t].pc = "done" /\ threads[t].pushedEvent # 0
    /\ DuplicateEvents # {}

---------------------------------------------------------------------------
(* EtwTrace orders AddEvent before WriteEvent *)

\* An external primitive failed in the last call: the failure the
\* environment holds was met.
PrimitiveFailed ==
    \/ last.env.reg # STATUS_SUCCESS /\ last.nRegister > 0
    \/ last.env.traits # STATUS_SUCCESS /\ last.nSetTraits > 0
    \/ last.env.allocFail # 0 /\ last.nAlloc = last.env.allocFail
    \/ last.env.wr # STATUS_SUCCESS /\ last.nWrite > 0

\* C17: an EtwTrace call reaches WriteEvent only after AddEvent has
\* succeeded, so WriteEvent finds the event: a call at PASSIVE_LEVEL never
\* fails by WriteEvent's lookup, only by an external primitive that failed;
\* and when it reaches the write, the event it wrote is among the events of
\* its provider.
C17_WriteAfterAddFindsEvent ==
    (last.op = "EtwTrace" /\ last.irql = PASSIVE_LEVEL)
        => /\ last.status # STATUS_SUCCESS => PrimitiveFailed
           /\ last.write.called =>
                 /\ last.at # 0
                 /\ EtwProvider_FindEvent(pool, g_ProviderCache[last.at], last.eventName) # 0

\* The first call for an event: AddEvent has added it and WriteEvent has
\* found and written it.
C17_Witness ==
    /\ last.op = "EtwTrace"
    /\ ncalls = 1
    /\ last.write.called
    /\ last.status = STATUS_SUCCESS
    /\ Len(g_ProviderCache[last.at].m_events) = 1

---------------------------------------------------------------------------
(* Ownership of the metadata blobs *)

\* The allocated blocks that hold provider or event metadata.
MetadataBlobs == {b \in LiveBlocks : pool[b].type \in {"ProviderMetadata", "EventMetadata"}}

\* The cached providers that own block b: whose provider metadata descriptor
\* or one of whose events' descriptors points to it.
Owners(b) ==
    {at \in 1..Len(g_ProviderCache) :
        \/ g_ProviderCache[at].m_providerMetadataDesc.Ptr = b
        \/ \E k \in 1..Len(g_ProviderCache[at].m_events) :
              g_ProviderCache[at].m_events[k].m_eventMetadataDesc.Ptr = b}

\* C18: in every state, also after a call that failed, each allocated
\* provider or event metadata blob is owned by exactly one cached provider:
\* none is shared, and none is left allocated without an owner.
C18_MetadataBlobsOwned ==
    \A b \in MetadataBlobs : Cardinality(Owners(b)) = 1

---------------------------------------------------------------------------
(* The handle of a provider whose Initialize failed *)

\* The cached providers that hold handle h.
Holders(h) == {at \in 1..Len(g_ProviderCache) : g_ProviderCache[at].m_regHandle = h}

\* The handles that are registered and held by no cached provider.
OrphanHandles == {h \in 1..Len(etw) : etw[h].registered /\ Holders(h) = {}}

\* C19: when EtwRegister succeeds and Initialize then fails, by the
\* allocation or by EtwSetInformation, the call unregisters nothing: the new
\* handle is registered and no cached provider holds it.  A handle is
\* unregistered only by Destruct on a provider that holds it, so the
\* orphaned handle stays registered, through teardown too.
C19_FailedInitializeLeavesHandle ==
    [][ /\ ( /\ Called("EtwTrace")
             /\ last'.irql = PASSIVE_LEVEL
             /\ ProvidersWith(g_ProviderCache, last'.providerGuid) = {}
             /\ last'.env.reg = STATUS_SUCCESS
             /\ \/ last'.env.allocFail = 1
                \/ last'.env.traits # STATUS_SUCCESS )
           => /\ last'.status # STATUS_SUCCESS
              /\ Len(etw') = Len(etw) + 1
              /\ etw'[Len(etw')].guid = last'.providerGuid
              /\ Len(etw') \in OrphanHandles'
              /\ \A h \in 1..Len(etw) : etw'[h] = etw[h]
        /\ \A h \in 1..Len(etw) :
              (etw[h].registered /\ ~etw'[h].registered)
                  => /\ last'.op = "Destruct"
                     /\ Holders(h) # {}
        /\ OrphanHandles \subseteq OrphanHandles'
      ]_vars

\* Teardown has destroyed a cached provider, and the handle of a provider
\* whose Initialize failed is still registered.
C19_Witness ==
    /\ last.op = "Destruct"
    /\ \E h \in 1..Len(etw) : ~etw[h].registered
    /\ OrphanHandles # {}

---------------------------------------------------------------------------
(* A field allocation that fails in WriteEvent *)

\* C20: when the allocation of a field's buffer fails in WriteEvent (the
\* call's second or a later allocation; the first is the descriptor array),
\* WriteEvent returns failure without calling EtwWrite, and leaves the cache
\* and with it every provider's events as they were.
C20_FieldAllocationFailureAbortsWrite ==
    [][ ( /\ Called("WriteEvent")
          /\ last'.env.allocFail >= 2 )
        => /\ last'.nAlloc = last'.env.allocFail
           /\ last'.status = STATUS_UNSUCCESSFUL
           /\ last'.nWrite = 0
           /\ ~last'.write.called
           /\ g_ProviderCache' = g_ProviderCache
           /\ etw' = etw
      ]_vars

\* The allocation for the second field of a two-field event has failed in
\* WriteEvent.
C20_Witness ==
    /\ last.op = "WriteEvent"
    /\ Len(last.fields) = 2
    /\ last.env.allocFail = 3
    /\ last.nAlloc = 3
    /\ last.status = STATUS_UNSUCCESSFUL
    /\ ~last.write.called

====
